---- MODULE Spec2Model ----
(***************************************************************************)
(* Model of xkfisher/mulagent:                                             *)
(*   src/form_conversation_agent.py  the chat session over an extracted    *)
(*                                   form (specification Spec)             *)
(*   src/pdf_form_extractor.py       the extraction command line           *)
(*                                   (specification SpecExtract)           *)
(* SpecFair is Spec with every model call answered, SpecSummary builds the *)
(* agent over every small form, SpecManager reuses one processor for       *)
(* several process_form calls.                                             *)
(*                                                                         *)
(* A Python str is modelled as a sequence of fragments: single characters  *)
(* for the text that comes from outside (input lines, completions, paths), *)
(* and one fragment per fixed literal of the source ("Human: ", ...).      *)
(***************************************************************************)
EXTENDS Integers, Sequences, FiniteSets, TLC

\* ------------------------------------------------------------------ bounds
\* chat exchanges made in one session
MaxAsks == 3
\* top-level groups of a form handed to the summary
MaxGroups == 2
\* process_form calls made on one processor
MaxRuns == 2

\* ------------------------------------------------------- string helpers
Whitespace == {" ", "\n", "\t"}

RECURSIVE LStrip(_)
LStrip(s) ==
  IF s # <<>> /\ Head(s) \in Whitespace THEN LStrip(Tail(s)) ELSE s

RECURSIVE RStrip(_)
RStrip(s) ==
  IF s # <<>> /\ s[Len(s)] \in Whitespace THEN RStrip(SubSeq(s, 1, Len(s) - 1)) ELSE s

\* variant: only the leading whitespace is removed
Strip_left_only(s) == LStrip(s)

\* str.strip()
Strip(s) == RStrip(LStrip(s))

LowerChar(c) ==
  CASE c = "E" -> "e"
    [] c = "X" -> "x"
    [] c = "I" -> "i"
    [] c = "T" -> "t"
    [] OTHER -> c

\* variant: the comparison is case-sensitive
Lower_unchanged(s) == s

\* str.lower()
Lower(s) == [i \in 1..Len(s) |-> LowerChar(s[i])]

\* sep.join(parts)
RECURSIVE Join(_, _)
Join(parts, sep) ==
  IF parts = <<>> THEN <<>>
  ELSE IF Len(parts) = 1 THEN parts[1]
  ELSE parts[1] \o sep \o Join(Tail(parts), sep)

\* sub occurs in s starting at position i
OccursAt(s, sub, i) ==
  /\ i >= 1
  /\ i + Len(sub) - 1 <= Len(s)
  /\ SubSeq(s, i, i + Len(sub) - 1) = sub

Contains(s, sub) == \E i \in 1..(Len(s) + 1) : OccursAt(s, sub, i)

\* ------------------------------------------------------------ form data
\* Python None
None == "<None>"

\* str(value) inside an f-string
PyStr(v) == IF v = None THEN <<"None">> ELSE <<v>>

Scalar(v) == [isdict |-> FALSE, val |-> v, items |-> <<>>]
Dict(items) == [isdict |-> TRUE, val |-> None, items |-> items]

\* the form_output.json documents the session is started with
Forms ==
  { << [key |-> "name", value |-> Scalar("Alice")],
       [key |-> "metadata", value |-> Dict(<< [key |-> "version", value |-> "1.0.0"] >>)] >>,
    << [key |-> "applicant", value |-> Dict(<< [key |-> "first", value |-> "Bob"],
                                              [key |-> "phone", value |-> None] >>)],
       [key |-> "signed", value |-> Scalar(None)] >> }

RECURSIVE SubLines(_, _)
SubLines(key, items) ==
  IF items = <<>> THEN <<>>
  ELSE << <<key, ".", items[1].key, ": ">> \o PyStr(items[1].value) >>
       \o SubLines(key, Tail(items))

\* variant: the metadata group is summarised like any other
RECURSIVE SummaryLines_with_metadata(_)
SummaryLines_with_metadata(form) ==
  IF form = <<>> THEN <<>>
  ELSE LET e == form[1] IN
       (IF e.value.isdict THEN SubLines(e.key, e.value.items)
        ELSE << <<e.key, ": ">> \o PyStr(e.value.val) >>)
       \o SummaryLines_with_metadata(Tail(form))

RECURSIVE SummaryLines(_)
SummaryLines(form) ==
  IF form = <<>> THEN <<>>
  ELSE LET e == form[1] IN
       (IF e.key = "metadata" THEN <<>>
        ELSE IF e.value.isdict THEN SubLines(e.key, e.value.items)
        ELSE << <<e.key, ": ">> \o PyStr(e.value.val) >>)
       \o SummaryLines(Tail(form))

_create_form_summary(form) == Join(SummaryLines(form), <<"\n">>)

\* the f-string of _initialize_conversation around {form_summary}
initial_prompt(form) ==
  <<"<You are a helpful assistant ... Here is the form data:>">>
  \o _create_form_summary(form)
  \o <<"<You can help users by: ... say so.>">>

Turn(role, content) == [role |-> role, content |-> content]

_initialize_conversation(form) == << Turn("system", initial_prompt(form)) >>

\* ------------------------------------------------------ prompt rendering
RECURSIVE RenderTurns(_)
RenderTurns(turns) ==
  IF turns = <<>> THEN <<>>
  ELSE << (IF turns[1].role = "user" THEN <<"Human: ">> ELSE <<"Assistant: ">>)
          \o turns[1].content >>
       \o RenderTurns(Tail(turns))

\* variant: only the current input is rendered, without the earlier turns
prompt_parts_no_context(history) ==
  << history[1].content >>
  \o << <<"Human: ">> \o history[Len(history)].content >>
  \o << <<"Assistant: ">> >>

\* prompt_parts of _create_conversation_prompt
prompt_parts(history) ==
  << history[1].content >>
  \o RenderTurns(Tail(history))
  \o << <<"Human: ">> \o history[Len(history)].content >>
  \o << <<"Assistant: ">> >>

_create_conversation_prompt(history) == Join(prompt_parts(history), <<"\n\n">>)

\* ------------------------------------------------------- the chat session
VARIABLES
  pc,                    \* position of main(): "load", "read", "awaiting", "done"
  conversation_history,  \* FormConversationAgent.conversation_history
  primer,                \* the initial_prompt built when the agent was constructed
  prompt,                \* the prompt handed to invoke_model by the running chat()
  before,                \* conversation_history on entry to the running chat()
  response,              \* what the last chat() returned
  raised,                \* an exception left chat() and reached main()'s handler
  calls,                 \* the chat() calls made so far: input, outcome, returned text
  form_data,             \* FormConversationAgent.form_data
  lines,                 \* the lines input() has returned so far
  invocations,           \* number of invoke_model calls made so far
  epc,                   \* position of the extraction program
  pdf_path, output,      \* the command line arguments
  agent_id,              \* BedrockAgentManager.agent_id
  api,                   \* the service calls made so far
  completion,            \* response['completion'] of the last runtime call
  result,                \* what process_form returned
  stdout,                \* the lines printed
  outfile,               \* the output file
  completed,             \* the manager's setup methods that returned normally
  runs                   \* number of process_form calls started

chatvars == <<pc, conversation_history, primer, prompt, before, response, raised, calls,
              form_data, lines, invocations>>
extractvars == <<epc, pdf_path, output, agent_id, api, completion, result, stdout, outfile,
                 completed, runs>>
vars == <<chatvars, extractvars>>

\* what input() can return
exit_token == <<"e", "x", "i", "t">>

Lines ==
  { <<"a">>, <<" ", "b", " ">>, <<>>,
    exit_token, <<"E", "X", "I", "T">>, <<" ", "E", "x", "i", "t", "\t">> }

\* three backticks
FenceMark == "<3 backticks>"

\* what response['completion'] can hold
Completions == { <<"y">>, <<" ", FenceMark, "n", "o", FenceMark, "\n">> }

\* exceptions the try block of chat() can see: invoke_model raises
\* Exception("Error invoking Bedrock model: ..."); a response without the
\* key raises KeyError('completion')
ChatFaults == {"Exception", "KeyError"}

\* issubclass(kind, cls) for the classes above
IsSubclass(kind, cls) == cls = "Exception" \/ kind = cls

FaultText(kind) ==
  IF kind = "KeyError" THEN <<"'completion'">>
  ELSE <<"Error invoking Bedrock model: ", "<cause>">>

InitChat ==
  /\ pc = "load"
  /\ conversation_history = <<>>
  /\ primer = <<>>
  /\ prompt = <<>>
  /\ before = <<>>
  /\ response = <<>>
  /\ raised = FALSE
  /\ calls = <<>>
  /\ form_data = <<>>
  /\ lines = <<>>
  /\ invocations = 0

\* main(): form_output.json is read and the agent constructed
main_start(form) ==
  /\ pc = "load"
  /\ conversation_history' = _initialize_conversation(form)
  /\ primer' = initial_prompt(form)
  /\ form_data' = form
  /\ pc' = "read"
  /\ UNCHANGED <<prompt, before, response, raised, calls, lines, invocations>>
  /\ UNCHANGED extractvars

\* main(): open() raises FileNotFoundError
main_missing_file ==
  /\ pc = "load"
  /\ pc' = "done"
  /\ UNCHANGED <<conversation_history, primer, prompt, before, response, raised, calls,
                 form_data, lines, invocations>>
  /\ UNCHANGED extractvars

\* variant: the input is appended twice
append_user_twice(history, user_input) ==
  Append(Append(history, Turn("user", user_input)), Turn("user", user_input))

\* chat(): self.conversation_history.append({"role": "user", ...})
append_user(history, user_input) == Append(history, Turn("user", user_input))

\* variant: the history is cut to its last two turns after the reply
append_assistant_windowed(history, assistant_response) ==
  LET h == Append(history, Turn("assistant", assistant_response))
  IN SubSeq(h, Len(h) - 1, Len(h))

\* variant: the reply is appended twice
append_assistant_twice(history, assistant_response) ==
  Append(Append(history, Turn("assistant", assistant_response)),
         Turn("assistant", assistant_response))

\* chat(): self.conversation_history.append({"role": "assistant", ...})
append_assistant(history, assistant_response) ==
  Append(history, Turn("assistant", assistant_response))

\* variant: the except clause takes the user turn back
history_rolled_back(history) == SubSeq(history, 1, Len(history) - 1)

\* variant: the except clause stores the failure as a reply
history_with_error_reply(history) ==
  Append(history, Turn("assistant", <<"Error processing your request: ">>))

\* variant: the except clause calls invoke_model once more
invocations_with_retry(n) == n + 1

\* chat(): the except clause makes no further call of invoke_model
invocations_after_failure(n) == n

\* chat(): the except clause returns the message and leaves the history as it is
history_after_failure(history) == history

\* chat(): from entry up to the call of invoke_model
chat_call(user_input) ==
  /\ before' = conversation_history
  /\ conversation_history' = append_user(conversation_history, user_input)
  /\ prompt' = _create_conversation_prompt(conversation_history')
  /\ invocations' = invocations + 1
  /\ pc' = "awaiting"
  /\ UNCHANGED <<primer, response, raised, calls, form_data>>

\* main(): one pass of the while loop up to the model call
main_loop(line) ==
  /\ pc = "read"
  /\ lines' = Append(lines, line)
  /\ LET user_input == Strip(line) IN
       IF Lower(user_input) = exit_token
       THEN /\ pc' = "done"
            /\ UNCHANGED <<conversation_history, primer, prompt, before, response,
                           raised, calls, form_data, invocations>>
       ELSE /\ Len(calls) < MaxAsks
            /\ chat_call(user_input)
  /\ UNCHANGED extractvars

\* chat(): invoke_model returned a response holding `text` as completion
chat_success(text) ==
  /\ pc = "awaiting"
  /\ LET assistant_response == Strip(text)
         user_input == conversation_history[Len(conversation_history)].content
     IN /\ conversation_history' =
             append_assistant(conversation_history, assistant_response)
        /\ response' = assistant_response
        /\ calls' = Append(calls, [input |-> user_input, ok |-> TRUE,
                                   returned |-> assistant_response, raw |-> text])
  /\ pc' = "read"
  /\ UNCHANGED <<primer, prompt, before, raised, form_data, lines, invocations>>
  /\ UNCHANGED extractvars

\* variant: the except clause names KeyError only
chat_except_KeyError == "KeyError"

\* the class named by chat()'s except clause
chat_except == "Exception"

\* chat(): the try block raised `kind`
chat_failure(kind) ==
  /\ pc = "awaiting"
  /\ LET user_input == conversation_history[Len(conversation_history)].content IN
       IF IsSubclass(kind, chat_except)
       THEN /\ response' = <<"Error processing your request: ">> \o FaultText(kind)
            /\ calls' = Append(calls, [input |-> user_input, ok |-> FALSE,
                                       returned |-> response', raw |-> <<>>])
            /\ pc' = "read"
            /\ UNCHANGED raised
       ELSE \* the exception leaves chat() and ends main() in its handler
            /\ raised' = TRUE
            /\ calls' = Append(calls, [input |-> user_input, ok |-> FALSE,
                                       returned |-> <<>>, raw |-> <<>>])
            /\ pc' = "done"
            /\ UNCHANGED response
  /\ conversation_history' = history_after_failure(conversation_history)
  /\ invocations' = invocations_after_failure(invocations)
  /\ UNCHANGED <<primer, prompt, before, form_data, lines>>
  /\ UNCHANGED extractvars

Next ==
  \/ \E form \in Forms : main_start(form)
  \/ main_missing_file
  \/ \E line \in Lines : main_loop(line)
  \/ \E text \in Completions : chat_success(text)
  \/ \E kind \in ChatFaults : chat_failure(kind)

\* invoke_model is a blocking call: it returns a response or raises
ModelAnswers ==
  \/ \E text \in Completions : chat_success(text)
  \/ \E kind \in ChatFaults : chat_failure(kind)

\* -------------------------------------------------------------- JSON text
\* A JSON document is a sequence of characters; "json" and FenceMark are the
\* fragments of a Markdown fence.
Quote == "\""

\* values of json.loads: None, str, dict (insertion-ordered items)
JNone == [type |-> "none", val |-> <<>>, items |-> <<>>]
JStr(chars) == [type |-> "str", val |-> chars, items |-> <<>>]
JDict(items) == [type |-> "dict", val |-> <<>>, items |-> items]
\* no value bound yet
Unset == [type |-> "unset", val |-> <<>>, items |-> <<>>]

ParseFail == [ok |-> FALSE, val |-> Unset, rest |-> <<>>]
ParseOk(v, rest) == [ok |-> TRUE, val |-> v, rest |-> rest]

\* dict[key] = value: replaces the value of a key already there, appends otherwise
RECURSIVE SetItem(_, _, _)
SetItem(items, key, value) ==
  IF items = <<>> THEN << [key |-> key, value |-> value] >>
  ELSE IF items[1].key = key THEN << [key |-> key, value |-> value] >> \o Tail(items)
  ELSE << items[1] >> \o SetItem(Tail(items), key, value)

\* the characters of a string up to its closing quote
RECURSIVE ScanString(_, _)
ScanString(s, acc) ==
  IF s = <<>> THEN ParseFail
  ELSE IF Head(s) = Quote THEN ParseOk(JStr(acc), Tail(s))
  ELSE IF Head(s) \in {"\n", FenceMark} THEN ParseFail
  ELSE ScanString(Tail(s), Append(acc, Head(s)))

RECURSIVE ParseValue(_)
RECURSIVE ParseMembers(_, _)

\* the decoder's scan of one value, after leading whitespace
ParseValue(text) ==
  LET s == LStrip(text) IN
  IF s = <<>> THEN ParseFail
  ELSE IF Head(s) = "{" THEN
         LET t == LStrip(Tail(s)) IN
         IF t # <<>> /\ Head(t) = "}" THEN ParseOk(JDict(<<>>), Tail(t))
         ELSE ParseMembers(t, <<>>)
  ELSE IF Head(s) = Quote THEN ScanString(Tail(s), <<>>)
  ELSE IF Len(s) >= 4 /\ SubSeq(s, 1, 4) = <<"n", "u", "l", "l">>
         THEN ParseOk(JNone, SubSeq(s, 5, Len(s)))
  ELSE ParseFail

\* "key": value pairs separated by commas, up to the closing brace
ParseMembers(text, items) ==
  LET s == LStrip(text) IN
  IF s = <<>> \/ Head(s) # Quote THEN ParseFail
  ELSE LET k == ScanString(Tail(s), <<>>) IN
       IF ~ k.ok THEN ParseFail
       ELSE LET c == LStrip(k.rest) IN
            IF c = <<>> \/ Head(c) # ":" THEN ParseFail
            ELSE LET v == ParseValue(Tail(c)) IN
                 IF ~ v.ok THEN ParseFail
                 ELSE LET e == LStrip(v.rest)
                          more == SetItem(items, k.val.val, v.val)
                      IN IF e = <<>> THEN ParseFail
                         ELSE IF Head(e) = "}" THEN ParseOk(JDict(more), Tail(e))
                         ELSE IF Head(e) = "," THEN ParseMembers(Tail(e), more)
                         ELSE ParseFail

\* json.loads(text): the value, or ok = FALSE for json.JSONDecodeError
json_loads(text) ==
  LET r == ParseValue(text) IN
  IF r.ok /\ LStrip(r.rest) = <<>> THEN r ELSE ParseFail

\* str() of a JSONDecodeError: the decoder's message and position
JSONDecodeErrorText == <<"<msg>: line <l> column <c> (char <n>)">>

\* ------------------------------------------------- the extraction program
\* paths given on the command line, and the files that exist
Paths == { <<"f", "o", "r", "m", ".", "p", "d", "f">>, <<"n", "o", ".", "p", "d", "f">> }
ExistingFiles == { <<"f", "o", "r", "m", ".", "p", "d", "f">> }
Outputs == { <<>>, <<"o", ".", "j", "s", "o", "n">> }

JsonA == <<"{", Quote, "a", Quote, ":", " ", Quote, "b", Quote, "}">>
JsonNested ==
  <<"{", Quote, "g", Quote, ":", "{", Quote, "s", Quote, ":", "n", "u", "l", "l", "}",
    ",", Quote, "k", Quote, ":", Quote, "v", Quote, "}">>
JsonMeta == <<"{", Quote, "metadata", Quote, ":", Quote, "x", Quote, "}">>

\* well-formed JSON objects the agent may answer with
JsonObjects == {JsonA, JsonNested, JsonMeta, <<"{", "}">>}

\* text in a single leading and a single trailing fence marker
Fenced(text) == <<FenceMark, "json", "\n">> \o text \o <<"\n", FenceMark>>

\* what response['completion'] of the runtime call can hold
AgentCompletions ==
  JsonObjects
  \cup { Fenced(j) : j \in JsonObjects }
  \cup { <<" ">> \o JsonA \o <<"\n">>,
         <<"I", "'", "m", " ", "n", "o", "t", " ", "s", "u", "r", "e", ".">>,
         <<"n", "u", "l", "l">>,
         <<"{", Quote, "a", Quote, ":">>,
         JsonA \o <<" ", "o", "k">> }

TextLine(text) == [isjson |-> FALSE, text |-> text, value |-> Unset]
\* print(json.dumps(value, indent=2))
JsonLine(value) == [isjson |-> TRUE, text |-> <<>>, value |-> value]

ErrorDict(msg) == JDict(<< [key |-> <<"error">>, value |-> JStr(msg)] >>)

InitExtract ==
  /\ epc = "main"
  /\ pdf_path \in Paths
  /\ output \in Outputs
  /\ agent_id = <<>>
  /\ api = <<>>
  /\ completion = <<>>
  /\ result = Unset
  /\ stdout = <<>>
  /\ outfile = [written |-> FALSE, value |-> Unset]
  /\ completed = <<>>
  /\ runs = 0

\* process_form(): except Exception as e: print, return {"error": str(e)}
process_form_except(msg) ==
  /\ stdout' = Append(stdout, TextLine(<<"Error: ">> \o msg))
  /\ result' = ErrorDict(msg)
  /\ epc' = "returned"

\* invoke_agent(): the setup is run only while no agent id is held
after_extract == IF agent_id = <<>> THEN "list_agents" ELSE "invoke_agent"

\* process_form(): extract_text_from_pdf; `readable`: PyPDF2 reads the file
extract_text_from_pdf(readable) ==
  /\ epc = "main"
  /\ IF pdf_path \notin ExistingFiles
     THEN process_form_except(
            <<"Error extracting text from PDF: ",
              "[Errno 2] No such file or directory: ", "'">> \o pdf_path \o <<"'">>)
     ELSE IF ~ readable
     THEN process_form_except(<<"Error extracting text from PDF: ", "<PdfReadError>">>)
     ELSE /\ epc' = after_extract
          /\ UNCHANGED <<stdout, result>>
  /\ runs' = runs + 1
  /\ UNCHANGED <<pdf_path, output, agent_id, api, completion, outfile, completed>>
  /\ UNCHANGED chatvars

\* create_or_get_agent(): list_agents
list_agents(outcome) ==
  /\ epc = "list_agents"
  /\ api' = Append(api, "list_agents")
  /\ CASE outcome = "found" ->
            /\ agent_id' = <<"AGENT-1">>
            /\ completed' = Append(completed, "create_or_get_agent")
            /\ epc' = "create_agent_action_group"
            /\ UNCHANGED <<stdout, result>>
       [] outcome = "absent" ->
            /\ epc' = "create_agent"
            /\ UNCHANGED <<agent_id, stdout, result, completed>>
       [] OTHER ->
            /\ process_form_except(<<"Error managing Bedrock agent: ", "<ClientError>">>)
            /\ UNCHANGED <<agent_id, completed>>
  /\ UNCHANGED <<pdf_path, output, completion, outfile, runs>>
  /\ UNCHANGED chatvars

\* create_or_get_agent(): create_agent
create_agent(ok) ==
  /\ epc = "create_agent"
  /\ api' = Append(api, "create_agent")
  /\ IF ok
     THEN /\ agent_id' = <<"AGENT-2">>
          /\ completed' = Append(completed, "create_or_get_agent")
          /\ epc' = "create_agent_action_group"
          /\ UNCHANGED <<stdout, result>>
     ELSE /\ process_form_except(<<"Error managing Bedrock agent: ", "<ClientError>">>)
          /\ UNCHANGED <<agent_id, completed>>
  /\ UNCHANGED <<pdf_path, output, completion, outfile, runs>>
  /\ UNCHANGED chatvars

\* create_action_group()
create_action_group(ok) ==
  /\ epc = "create_agent_action_group"
  /\ api' = Append(api, "create_agent_action_group")
  /\ IF ok
     THEN /\ epc' = "prepare_agent"
          /\ completed' = Append(completed, "create_action_group")
          /\ UNCHANGED <<stdout, result>>
     ELSE /\ process_form_except(<<"Error creating action group: ", "<ClientError>">>)
          /\ UNCHANGED completed
  /\ UNCHANGED <<pdf_path, output, agent_id, completion, outfile, runs>>
  /\ UNCHANGED chatvars

\* prepare_agent()
prepare_agent(ok) ==
  /\ epc = "prepare_agent"
  /\ api' = Append(api, "prepare_agent")
  /\ IF ok
     THEN /\ epc' = "invoke_agent"
          /\ completed' = Append(completed, "prepare_agent")
          /\ UNCHANGED <<stdout, result>>
     ELSE /\ process_form_except(<<"Error preparing agent: ", "<ClientError>">>)
          /\ UNCHANGED completed
  /\ UNCHANGED <<pdf_path, output, agent_id, completion, outfile, runs>>
  /\ UNCHANGED chatvars

\* invoke_agent(): the runtime call raises ClientError
invoke_agent_fails ==
  /\ epc = "invoke_agent"
  /\ api' = Append(api, "invoke_agent")
  /\ process_form_except(<<"Error invoking agent: ", "<ClientError>">>)
  /\ UNCHANGED <<pdf_path, output, agent_id, completion, outfile, completed, runs>>
  /\ UNCHANGED chatvars

\* invoke_agent(): what is handed to json.loads
completion_text(text) == text

\* variant: the metadata group is not added
without_metadata(value) == value

\* process_form(): result['metadata'] = {...}
with_metadata(value) ==
  JDict(SetItem(value.items, <<"metadata">>,
                JDict(<< [key |-> <<"processed_at">>, value |-> JStr(<<"<now>">>)],
                         [key |-> <<"pdf_path">>, value |-> JStr(pdf_path)],
                         [key |-> <<"agent_id">>, value |-> JStr(agent_id)],
                         [key |-> <<"version">>, value |-> JStr(<<"1.0.0">>)] >>)))

\* invoke_agent(): the runtime call returns `text` as completion; then
\* json.loads and the rest of process_form(); `writable`: open(output_path, 'w')
\* succeeds
invoke_agent_returns(text, writable) ==
  /\ epc = "invoke_agent"
  /\ api' = Append(api, "invoke_agent")
  /\ completion' = text
  /\ LET parsed == json_loads(completion_text(text)) IN
       IF ~ parsed.ok
       THEN /\ process_form_except(JSONDecodeErrorText)
            /\ UNCHANGED outfile
       ELSE IF parsed.val.type # "dict"
       THEN /\ process_form_except(<<"<TypeError>: object does not support item assignment">>)
            /\ UNCHANGED outfile
       ELSE IF output = <<>>
       THEN /\ result' = with_metadata(parsed.val)
            /\ epc' = "returned"
            /\ UNCHANGED <<stdout, outfile>>
       ELSE IF ~ writable
       THEN /\ process_form_except(<<"[Errno 13] Permission denied: ", "'">>
                                   \o output \o <<"'">>)
            /\ UNCHANGED outfile
       ELSE /\ result' = with_metadata(parsed.val)
            /\ outfile' = [written |-> TRUE, value |-> result']
            /\ stdout' = Append(stdout, TextLine(<<"Results saved to ">> \o output))
            /\ epc' = "returned"
  /\ UNCHANGED <<pdf_path, output, agent_id, completed, runs>>
  /\ UNCHANGED chatvars

\* main(): after process_form returned
main_print ==
  /\ epc = "returned"
  /\ stdout' = IF output = <<>>
               THEN stdout \o << TextLine(<<"Extracted Form Data:">>), JsonLine(result) >>
               ELSE stdout
  /\ epc' = "done"
  /\ UNCHANGED <<pdf_path, output, agent_id, api, completion, result, outfile,
                 completed, runs>>
  /\ UNCHANGED chatvars

\* the chat program is not running
InitIdleChat ==
  /\ pc = "idle"
  /\ conversation_history = <<>>
  /\ primer = <<>>
  /\ prompt = <<>>
  /\ before = <<>>
  /\ response = <<>>
  /\ raised = FALSE
  /\ calls = <<>>
  /\ form_data = <<>>
  /\ lines = <<>>
  /\ invocations = 0

InitX == InitIdleChat /\ InitExtract

NextExtract ==
  \/ \E readable \in BOOLEAN : extract_text_from_pdf(readable)
  \/ \E outcome \in {"found", "absent", "ClientError"} : list_agents(outcome)
  \/ \E ok \in BOOLEAN : create_agent(ok)
  \/ \E ok \in BOOLEAN : create_action_group(ok)
  \/ \E ok \in BOOLEAN : prepare_agent(ok)
  \/ invoke_agent_fails
  \/ \E text \in AgentCompletions, writable \in BOOLEAN : invoke_agent_returns(text, writable)
  \/ main_print

SpecExtract == InitX /\ [][NextExtract]_vars

\* a caller of PDFFormProcessor calls process_form again on the same
\* processor, hence invoke_agent again on the same manager
process_form_again ==
  /\ epc = "returned"
  /\ runs < MaxRuns
  /\ epc' = "main"
  /\ UNCHANGED <<pdf_path, output, agent_id, api, completion, result, stdout, outfile,
                 completed, runs>>
  /\ UNCHANGED chatvars

NextManager ==
  \/ \E readable \in BOOLEAN : extract_text_from_pdf(readable)
  \/ \E outcome \in {"found", "absent", "ClientError"} : list_agents(outcome)
  \/ \E ok \in BOOLEAN : create_agent(ok)
  \/ \E ok \in BOOLEAN : create_action_group(ok)
  \/ \E ok \in BOOLEAN : prepare_agent(ok)
  \/ invoke_agent_fails
  \/ \E text \in AgentCompletions, writable \in BOOLEAN : invoke_agent_returns(text, writable)
  \/ process_form_again

\* one processor used for up to MaxRuns calls of process_form
SpecManager == InitX /\ [][NextManager]_vars

\* the extraction program is not running
InitIdleExtract ==
  /\ epc = "idle"
  /\ pdf_path = <<>>
  /\ output = <<>>
  /\ agent_id = <<>>
  /\ api = <<>>
  /\ completion = <<>>
  /\ result = Unset
  /\ stdout = <<>>
  /\ outfile = [written |-> FALSE, value |-> Unset]
  /\ completed = <<>>
  /\ runs = 0

Init == InitChat /\ InitIdleExtract

Spec == Init /\ [][Next]_vars

\* the chat program with every model call answered
SpecFair == Spec /\ WF_vars(ModelAnswers)

\* ---------------------------------------------- the summary on its own
\* forms of up to MaxGroups groups with distinct names
GroupValues ==
  { Scalar("Alice"), Scalar(None), Dict(<<>>),
    Dict(<< [key |-> "first", value |-> "Bob"] >>),
    Dict(<< [key |-> "first", value |-> "Bob"], [key |-> "phone", value |-> None] >>),
    Dict(<< [key |-> "version", value |-> "1.0.0"] >>) }

GroupEntries == [key : {"name", "metadata", "applicant"}, value : GroupValues]

FormInputs ==
  { f \in UNION { [1..n -> GroupEntries] : n \in 0..MaxGroups } :
      \A i, j \in 1..Len(f) : i # j => f[i].key # f[j].key }

\* the agent is constructed over any of these forms
NextSummary == \E form \in FormInputs : main_start(form)

SpecSummary == Init /\ [][NextSummary]_vars

\* ---------------------------------------------------------------- claims
IsPrefix(s, t) == Len(s) <= Len(t) /\ SubSeq(t, 1, Len(s)) = s

Last(s) == s[Len(s)]

AllSucceeded == \A i \in 1..Len(calls) : calls[i].ok

RECURSIVE Exchanges(_)
Exchanges(cs) ==
  IF cs = <<>> THEN <<>>
  ELSE << Turn("user", cs[1].input), Turn("assistant", cs[1].returned) >>
       \o Exchanges(Tail(cs))

\* a chat() call returns with a failure in this step
FailureReturns ==
  /\ pc = "awaiting"
  /\ Len(calls') = Len(calls) + 1
  /\ ~ Last(calls').ok

\* C1: after start() and n >= 0 ask() calls that all succeeded the transcript
\* has exactly 1 + 2n turns: the system turn, then user, assistant
\* alternating in the order of the asks.
C1_TranscriptGrowth ==
  (pc = "read" /\ AllSucceeded) =>
    /\ Len(conversation_history) = 1 + 2 * Len(calls)
    /\ conversation_history = << Turn("system", primer) >> \o Exchanges(calls)

C1_Witness ==
  /\ pc = "read"
  /\ Len(calls) = 2
  /\ AllSucceeded
  /\ calls[1].input # calls[2].input
  /\ Len(conversation_history) = 5

\* C2: when the model invocation fails during ask(), the transcript
\* afterwards is the transcript before the call plus exactly one user turn
\* holding the asked text; no assistant turn is added and the session is
\* ready again.
C2_FailureKeepsUserTurn ==
  [][FailureReturns =>
       /\ conversation_history' = Append(before, Turn("user", Last(calls').input))
       /\ pc' = "read"]_vars

C2_Witness ==
  /\ pc = "read"
  /\ Len(calls) = 1
  /\ ~ calls[1].ok
  /\ Len(conversation_history) = 2
  /\ conversation_history[1].role = "system"
  /\ conversation_history[2] = Turn("user", calls[1].input)

\* C3: the prompt sent to the model is exactly the system text, then every
\* later turn rendered once, in order, as "Human: <text>" or
\* "Assistant: <text>", then one trailing "Assistant: " cue.
C3_PromptRendersEachTurnOnce ==
  pc = "awaiting" =>
    prompt = Join(<< conversation_history[1].content >>
                  \o RenderTurns(Tail(conversation_history))
                  \o << <<"Assistant: ">> >>,
                  <<"\n\n">>)

\* C4: after a failed ask(u1), a following successful ask(u2) appends exactly
\* user(u2) and assistant(reply), as turns 3 and 4 when these are the first
\* two asks, and the prompt of the second call holds u1 before u2.
C4_FailedTurnIsContext ==
  LET n == Len(calls) IN
  (pc = "read" /\ n >= 2 /\ ~ calls[n - 1].ok /\ calls[n].ok) =>
    /\ conversation_history =
         before \o << Turn("user", calls[n].input),
                      Turn("assistant", calls[n].returned) >>
    /\ Last(before) = Turn("user", calls[n - 1].input)
    /\ n = 2 => Len(conversation_history) = 4
    /\ \E i, j \in 1..Len(prompt) :
         /\ i < j
         /\ OccursAt(prompt, <<"Human: ">> \o calls[n - 1].input \o <<"\n\n">>, i)
         /\ OccursAt(prompt, <<"Human: ">> \o calls[n].input \o <<"\n\n">>, j)

C4_Witness ==
  /\ pc = "read"
  /\ Len(calls) = 2
  /\ ~ calls[1].ok
  /\ calls[2].ok
  /\ calls[1].input # calls[2].input
  /\ Len(conversation_history) = 4

\* C5: in every state of a started session turn 1 is the system turn holding
\* the primer built at start, and no other turn is a system turn.
C5_SystemTurnFirst ==
  primer # <<>> =>
    /\ conversation_history # <<>>
    /\ conversation_history[1] = Turn("system", primer)
    /\ \A i \in 2..Len(conversation_history) : conversation_history[i].role # "system"

C5_Witness ==
  /\ primer # <<>>
  /\ Len(calls) = 3
  /\ \E i, j \in 1..3 : calls[i].ok /\ ~ calls[j].ok
  /\ conversation_history[1].role = "system"

\* C6: the transcript is append-only: in every step the transcript before is
\* a prefix of the transcript after.
C6_AppendOnly ==
  [][IsPrefix(conversation_history, conversation_history')]_vars

\* the same user text was asked twice and both turns are kept
C6_Witness ==
  \E i, j \in 2..Len(conversation_history) :
    /\ i < j
    /\ conversation_history[i].role = "user"
    /\ conversation_history[i] = conversation_history[j]
    /\ \E k \in 1..Len(calls) : ~ calls[k].ok

\* C7: a failure of the model call never leaves ask() as a raised fault:
\* ask() returns a string that starts with the error indicator and the
\* loop is back at reading the next line.
C7_FailureIsReturned ==
  [][FailureReturns =>
       /\ ~ raised'
       /\ response' # <<>>
       /\ Head(response') = "Error processing your request: "
       /\ Last(calls').returned = response'
       /\ pc' = "read"]_vars

C7_Witness ==
  /\ pc = "awaiting"
  /\ calls # <<>>
  /\ ~ Last(calls).ok
  /\ Head(response) = "Error processing your request: "
  /\ ~ raised

\* process_form has returned after the agent answered with a completion
AgentAnswered ==
  /\ epc \in {"returned", "done"}
  /\ completion # <<>>

InvokeCount == Cardinality({i \in 1..Len(api) : api[i] = "invoke_agent"})

\* C8: for every well-formed JSON object, the completion that wraps it in one
\* leading and one trailing fence marker gives the same result as the
\* unwrapped JSON parsed directly.
C8_FencedRoundTrip ==
  \A j \in JsonObjects :
    (AgentAnswered /\ completion = Fenced(j) /\ output = <<>>) =>
      result = with_metadata(json_loads(j).val)

\* C9: when the completion is not parsable as JSON the extraction returns an
\* explicit {"error": ...} value that carries the raw completion text, and
\* the model is not invoked a second time.
C9_MalformedOutputKeepsRawText ==
  (AgentAnswered /\ ~ json_loads(completion).ok) =>
    /\ result.type = "dict"
    /\ Len(result.items) = 1
    /\ result.items[1].key = <<"error">>
    /\ Contains(result.items[1].value.val, completion)
    /\ InvokeCount = 1

\* C10: the entry point run on a nonexistent PDF path without an output path
\* prints an error line that mentions the path and prints no JSON.
C10_MissingPdfPrintsNoJson ==
  (epc = "done" /\ pdf_path \notin ExistingFiles /\ output = <<>>) =>
    /\ \E i \in 1..Len(stdout) :
         /\ ~ stdout[i].isjson
         /\ Head(stdout[i].text) = "Error: "
         /\ Contains(stdout[i].text, pdf_path)
    /\ \A i \in 1..Len(stdout) : ~ stdout[i].isjson

\* the summary embedded in the primer of the running session
SummaryInPrimer == SubSeq(primer, 2, Len(primer) - 1)

\* the text cut at its newlines
RECURSIVE SplitLines(_, _)
SplitLines(s, line) ==
  IF s = <<>> THEN << line >>
  ELSE IF Head(s) = "\n" THEN << line >> \o SplitLines(Tail(s), <<>>)
  ELSE SplitLines(Tail(s), Append(line, Head(s)))

\* lines a group contributes: none for metadata, one per subfield, one for a scalar
LineCount(form, i) ==
  IF form[i].key = "metadata" THEN 0
  ELSE IF form[i].value.isdict THEN Len(form[i].value.items)
  ELSE 1

\* lines contributed by the groups before group i
RECURSIVE LinesBefore(_, _)
LinesBefore(form, i) ==
  IF i = 1 THEN 0 ELSE LinesBefore(form, i - 1) + LineCount(form, i - 1)

\* the k-th line the claim asks for
ExpectedLine(form, k) ==
  LET i == CHOOSE g \in 1..Len(form) :
             LinesBefore(form, g) < k /\ k <= LinesBefore(form, g) + LineCount(form, g)
      e == form[i]
      j == k - LinesBefore(form, i)
  IN IF e.value.isdict
     THEN <<e.key, ".", e.value.items[j].key, ": ">>
          \o <<IF e.value.items[j].value = None THEN "None" ELSE e.value.items[j].value>>
     ELSE <<e.key, ": ">> \o <<IF e.value.val = None THEN "None" ELSE e.value.val>>

SpecExampleForm ==
  << [key |-> "name", value |-> Scalar("Alice")],
     [key |-> "metadata", value |-> Dict(<< [key |-> "version", value |-> "1.0.0"] >>)] >>

\* C11: the summary holds, for the groups in insertion order and without the
\* group named metadata, one line "<group>.<subfield>: <value>" per subfield
\* of a nested group and one line "<group>: <value>" per scalar entry, joined
\* by newlines with no trailing newline; the form {"name": "Alice",
\* "metadata": {...}} gives exactly "name: Alice".
C11_SummaryLines ==
  pc = "read" =>
    LET total == LinesBefore(form_data, Len(form_data) + 1) IN
    /\ IF total = 0 THEN SummaryInPrimer = <<>>
       ELSE SplitLines(SummaryInPrimer, <<>>)
              = [k \in 1..total |-> ExpectedLine(form_data, k)]
    /\ form_data = SpecExampleForm => SummaryInPrimer = <<"name", ": ", "Alice">>

C11_Witness ==
  /\ pc = "read"
  /\ Len(form_data) = 2
  /\ form_data[1].key = "metadata"
  /\ form_data[1].value.isdict
  /\ form_data[2].value.isdict
  /\ Len(form_data[2].value.items) = 2
  /\ Len(SplitLines(SummaryInPrimer, <<>>)) = 2

\* the text without its leading and trailing whitespace
Trimmed(s) ==
  LET solid == {i \in 1..Len(s) : s[i] \notin Whitespace} IN
  IF solid = {} THEN <<>>
  ELSE SubSeq(s, CHOOSE i \in solid : \A j \in solid : i <= j,
                 CHOOSE i \in solid : \A j \in solid : i >= j)

\* the word exit in any letter case
IsExitWord(s) ==
  /\ Len(s) = 4
  /\ s[1] \in {"e", "E"}
  /\ s[2] \in {"x", "X"}
  /\ s[3] \in {"i", "I"}
  /\ s[4] \in {"t", "T"}

NotExitLine(l) == ~ IsExitWord(l)
NotExitAfterTrim(l) == ~ IsExitWord(Trimmed(l))

IsUserTurn(t) == t.role = "user"
IsAssistantTurn(t) == t.role = "assistant"
IsSuccess(c) == c.ok

Contents(turns) == [i \in 1..Len(turns) |-> turns[i].content]
UserTexts == Contents(SelectSeq(conversation_history, IsUserTurn))
AssistantTexts == Contents(SelectSeq(conversation_history, IsAssistantTurn))

\* C12 as stated: a line equal to exit in any letter case ends the loop, and
\* every other line read results in exactly one ask() with that line, so the
\* user turns are the non-exit lines read.
C12_EveryOtherLineIsAsked ==
  primer # <<>> =>
    /\ UserTexts = SelectSeq(lines, NotExitLine)
    /\ (lines # <<>> /\ IsExitWord(Last(lines))) => pc = "done"

\* C12 amended: a line that is exit in any letter case once its leading and
\* trailing whitespace is trimmed ends the loop, after which no line is read
\* and no ask() made; every other line read, the empty line too, results in
\* exactly one ask() with the trimmed line, so the user turns are the
\* trimmed non-exit lines read, in order.
C12_TrimmedLinesAreAsked ==
  /\ [](primer # <<>> =>
         /\ LET asked == SelectSeq(lines, NotExitAfterTrim) IN
              UserTexts = [i \in 1..Len(asked) |-> Trimmed(asked[i])]
         /\ \A i \in 1..(Len(lines) - 1) : NotExitAfterTrim(lines[i])
         /\ (lines # <<>> /\ ~ NotExitAfterTrim(Last(lines))) => pc = "done")
  /\ [][pc = "done" =>
          /\ lines' = lines
          /\ invocations' = invocations
          /\ conversation_history' = conversation_history]_vars

C12_Witness ==
  /\ pc = "done"
  /\ Len(lines) = 3
  /\ lines[1] = <<>>
  /\ lines[2] = <<" ", "b", " ">>
  /\ lines[3] = <<" ", "E", "x", "i", "t", "\t">>
  /\ UserTexts = << <<>>, <<"b">> >>

\* C13: the core never retries: every ask() invokes the model at most once,
\* and a failed invocation is returned without a second one.
C13_NoRetry ==
  /\ invocations = Len(calls) + (IF pc = "awaiting" THEN 1 ELSE 0)
  /\ invocations = Len(UserTexts)

C13_Witness ==
  /\ pc = "read"
  /\ Len(calls) = 2
  /\ ~ calls[1].ok
  /\ ~ calls[2].ok
  /\ invocations = 2

\* C14: Uninitialized -> Ready -> (Ready <-> AwaitingResponse): ask() is only
\* taken from Ready, AwaitingResponse is entered only once the user turn is
\* appended, and with the model call answered every exchange that is
\* awaiting the response returns to Ready, never staying or ending there.
C14_SessionStates ==
  /\ [](pc = "awaiting" =>
         /\ conversation_history # <<>>
         /\ Last(conversation_history).role = "user"
         /\ conversation_history = Append(before, Last(conversation_history)))
  /\ [][/\ (pc' = "awaiting" /\ pc # "awaiting") => pc = "read"
        /\ (pc = "awaiting" /\ pc' # "awaiting") => pc' = "read"
        /\ (pc = "load" /\ pc' # "load") => pc' \in {"read", "done"}]_vars
  /\ (pc = "awaiting") ~> (pc = "read")

C14_Witness ==
  /\ pc = "read"
  /\ Len(calls) = 2
  /\ calls[1].ok
  /\ ~ calls[2].ok

\* C15: on a successful ask() the assistant turn holds the raw completion
\* with leading and trailing whitespace trimmed and nothing else changed,
\* and the returned string is the stored text; on a failed ask() the error
\* string is stored nowhere, so no prompt holds it as an assistant turn.
C15_StoredReplyIsTrimmedCompletion ==
  LET done == SelectSeq(calls, IsSuccess) IN
  /\ AssistantTexts = [i \in 1..Len(done) |-> Trimmed(done[i].raw)]
  /\ AssistantTexts = [i \in 1..Len(done) |-> done[i].returned]
  /\ \A i \in 1..Len(conversation_history) :
       ~ Contains(conversation_history[i].content, <<"Error processing your request: ">>)
  /\ ~ Contains(prompt, <<"Error processing your request: ">>)

C15_Witness ==
  /\ pc = "awaiting"
  /\ Len(calls) = 2
  /\ calls[1].ok
  /\ calls[1].raw = <<" ", FenceMark, "n", "o", FenceMark, "\n">>
  /\ conversation_history[3].content = <<FenceMark, "n", "o", FenceMark>>
  /\ ~ calls[2].ok

\* number of user turns among the first i turns
RECURSIVE UsersUpTo(_)
UsersUpTo(i) ==
  IF i = 0 THEN 0
  ELSE UsersUpTo(i - 1) + (IF conversation_history[i].role = "user" THEN 1 ELSE 0)

\* C16: every assistant turn directly follows a user turn, so no two
\* assistant turns are adjacent and there are at most as many assistant as
\* user turns; a user turn is directly followed by another user turn
\* exactly when its exchange failed.
C16_AssistantFollowsUser ==
  LET h == conversation_history IN
  /\ \A i \in 1..Len(h) :
       h[i].role = "assistant" => (i >= 2 /\ h[i - 1].role = "user")
  /\ Len(AssistantTexts) <= Len(UserTexts)
  /\ \A i \in 1..(Len(h) - 1) :
       h[i].role = "user" =>
         /\ UsersUpTo(i) <= Len(calls)
         /\ (h[i + 1].role = "user") <=> ~ calls[UsersUpTo(i)].ok

C16_Witness ==
  /\ Len(conversation_history) = 5
  /\ conversation_history[2].role = "user"
  /\ conversation_history[3].role = "user"
  /\ conversation_history[4].role = "assistant"
  /\ conversation_history[5].role = "user"

\* s is a subsequence of t
RECURSIVE IsSubsequence(_, _)
IsSubsequence(s, t) ==
  IF s = <<>> THEN TRUE
  ELSE IF t = <<>> THEN FALSE
  ELSE IF Head(s) = Head(t) THEN IsSubsequence(Tail(s), Tail(t))
  ELSE IsSubsequence(s, Tail(t))

\* C17: over any sequence of invoke_agent calls on one manager, calls that
\* failed during setup and were repeated included, the runtime invocation is
\* made only after create_or_get_agent, create_action_group and prepare_agent
\* have each completed successfully, in that order.
C17_SetupBeforeInvoke ==
  (\E i \in 1..Len(api) : api[i] = "invoke_agent") =>
    IsSubsequence(<<"create_or_get_agent", "create_action_group", "prepare_agent">>,
                  completed)

\* extraction, invocation and parsing all succeeded in this run
StepsSucceeded ==
  /\ completion # <<>>
  /\ json_loads(completion).ok

HasKey(value, key) == \E i \in 1..Len(value.items) : value.items[i].key = key

SavedLinePrinted ==
  \E i \in 1..Len(stdout) :
    stdout[i].text # <<>> /\ Head(stdout[i].text) = "Results saved to "

\* C18: process_form writes the output file only when an output path was
\* given and text extraction, agent invocation and JSON parsing all
\* succeeded, and what it writes includes the metadata group; when one of
\* these steps fails the file is untouched, no confirmation line is printed
\* and an {"error": ...} mapping is returned.
C18_OutputFileOnlyOnSuccess ==
  /\ outfile.written =>
       /\ output # <<>>
       /\ pdf_path \in ExistingFiles
       /\ StepsSucceeded
       /\ HasKey(outfile.value, <<"metadata">>)
       /\ outfile.value = result
  /\ SavedLinePrinted => outfile.written
  /\ (epc \in {"returned", "done"} /\ ~ StepsSucceeded) =>
       /\ ~ outfile.written
       /\ ~ SavedLinePrinted
       /\ result.type = "dict"
       /\ Len(result.items) = 1
       /\ result.items[1].key = <<"error">>

C18_Witness ==
  /\ epc = "done"
  /\ outfile.written
  /\ SavedLinePrinted
  /\ Len(outfile.value.items) = 2

====
